---- MODULE Spec2Model ----
(***************************************************************************)
(* Model of app.py: the natural-language -> SQL worker.                    *)
(*                                                                         *)
(*   nl_to_sql  (StatementGenerator)  app.py 107-170                       *)
(*   run_sql    (StatementExecutor)   app.py  71-103                       *)
(*   fix_sql    (StatementRepairer)   app.py 174-245                       *)
(*   main       (Orchestrator)        app.py 298-383                       *)
(*                                                                         *)
(* Text.  A Python str is a sequence of pieces drawn from Sym; the string  *)
(* it stands for is the concatenation of the pieces, and the empty string  *)
(* is <<>>.  The pieces are chosen so that every str operation the code    *)
(* uses is decided piecewise: " " is the only whitespace piece, "FENCE" is  *)
(* the fence delimiter, ";" the statement terminator, "select"/"SELECT"    *)
(* and "pragma" are keyword spellings and "sql" is an ordinary word (the   *)
(* language tag of a fence).  No keyword arises by gluing pieces, so       *)
(* `kw in p.lower()` holds iff some piece of p lower-cases to kw, and a    *)
(* whitespace-delimited token is a keyword iff it is one keyword piece.    *)
(* Python None is <<>> and a present value v is <<v>> (Some).              *)
(***************************************************************************)
EXTENDS Integers, Sequences, FiniteSets, TLC

VARIABLES pc, user_input, messages, shown, gen, run1, fix, run2, calls,
          conns, raw, genOut, fixOut, runOut

vars == <<pc, user_input, messages, shown, gen, run1, fix, run2, calls,
          conns, raw, genOut, fixOut, runOut>>

\* ------------------------------------------------------------------ bounds
\* longest completion text of the cleaning specification, in pieces
MaxLen == 5
\* requests handled in one session
MaxRequests == 2
\* most rows a result set holds
MaxRows == 1
\* longest statement text handed to run_sql on its own, in pieces
MaxQueryLen == 4

\* ------------------------------------------------------------------- text
Sym == {"select", "SELECT", "pragma", "sql", " ", ";", "FENCE"}

\* the fence delimiter, three backquotes, as one piece
Fence == "FENCE"

Semi == ";"

\* the texts of at most n pieces
Texts(n) == UNION {[1..k -> Sym] : k \in 0..n}

None == <<>>

Some(v) == <<v>>

\* bool(x) of an Optional[str]: None and "" are falsy
Truthy(opt) == opt # None /\ opt[1] # <<>>

IsSpace(a) == a = " "

\* str.lower, piecewise
Lower(a) == IF a = "SELECT" THEN "select" ELSE a

LowerText(s) == [i \in DOMAIN s |-> Lower(s[i])]

RECURSIVE LStrip(_)
LStrip(s) ==
    IF s # <<>> /\ IsSpace(Head(s)) THEN LStrip(Tail(s)) ELSE s

RECURSIVE RStrip(_)
RStrip(s) ==
    IF s # <<>> /\ IsSpace(s[Len(s)]) THEN RStrip(SubSeq(s, 1, Len(s) - 1)) ELSE s

\* str.strip()
Strip(s) == LStrip(RStrip(s))

\* "```" in raw
HasFence(s) == \E i \in DOMAIN s : s[i] = Fence

\* raw.split("```")
RECURSIVE SplitFence(_)
SplitFence(s) ==
    IF ~HasFence(s) THEN <<s>>
    ELSE LET i == CHOOSE j \in DOMAIN s :
                      s[j] = Fence /\ \A k \in 1..(j - 1) : s[k] # Fence
         IN  <<SubSeq(s, 1, i - 1)>> \o SplitFence(SubSeq(s, i + 1, Len(s)))

\* kw in p.lower()
ContainsWord(p, kw) == \E i \in DOMAIN p : Lower(p[i]) = kw

\* sql.endswith(";")
EndsWithSemi(s) == s # <<>> /\ s[Len(s)] = Semi

\* sql[:-1]
DropLast(s) == SubSeq(s, 1, Len(s) - 1)

\* str.rstrip(";")
RECURSIVE RStripSemi(_)
RStripSemi(s) == IF EndsWithSemi(s) THEN RStripSemi(DropLast(s)) ELSE s

\* sql.split(): the whitespace-delimited tokens, each a sequence of pieces
RECURSIVE SplitWords(_)
SplitWords(s) ==
    LET t == LStrip(s) IN
    IF t = <<>> THEN <<>>
    ELSE LET n == IF \E j \in DOMAIN t : IsSpace(t[j])
                  THEN (CHOOSE j \in DOMAIN t :
                           IsSpace(t[j]) /\ \A k \in 1..(j - 1) : ~IsSpace(t[k])) - 1
                  ELSE Len(t)
         IN  <<SubSeq(t, 1, n)>> \o SplitWords(SubSeq(t, n + 1, Len(t)))

\* a list of keyword strings, as one-piece texts
WordList(kws) == {<<k>> : k \in kws}

\* ------------------------------------------------- nl_to_sql (app.py 107-170)
\* the keywords of the fence filter, app.py 146-152
NlFenceKeywords == {"select", "insert", "update", "delete", "create", "alter", "drop"}

\* the keywords of the sanity check, app.py 164
NlValidKeywords ==
    {"select", "insert", "update", "delete", "create", "alter", "drop", "pragma"}

NlLooksLikeSql(p) == \E kw \in NlFenceKeywords : ContainsWord(p, kw)

\* candidates = [p.strip() for p in parts if "select" in p.lower() or ...]
NlCandidates(parts) ==
    LET kept == SelectSeq(parts, NlLooksLikeSql)
    IN  [i \in DOMAIN kept |-> Strip(kept[i])]

\* faulty variant: the text before the first fence is taken
NlUnfenceFirstPart(r) == IF HasFence(r) THEN SplitFence(r)[1] ELSE r

\* the fence cleaning, app.py 143-154
NlUnfence(r) ==
    IF HasFence(r)
    THEN LET candidates == NlCandidates(SplitFence(r))
         IN  IF candidates # <<>> THEN candidates[1] ELSE r
    ELSE r

\* removal of one trailing semicolon, app.py 156-160
NlDropSemi(r) ==
    LET sql == Strip(r) IN IF EndsWithSemi(sql) THEN DropLast(sql) ELSE sql

\* the cleaned text `sql` of app.py 140-160
NlClean(content) == NlDropSemi(NlUnfence(Strip(content)))

\* sql.split()[0] raises IndexError on a non-empty text without tokens
NlIndexError(sql) == sql # <<>> /\ SplitWords(sql) = <<>>

\* faulty variant: the first word is compared without lower-casing
NlFirstWordCased(sql) == IF sql # <<>> THEN SplitWords(sql)[1] ELSE <<>>

\* first_word, app.py 163
NlFirstWord(sql) == IF sql # <<>> THEN LowerText(SplitWords(sql)[1]) ELSE <<>>

\* the sanity check passes, app.py 164
NlValid(sql) == NlFirstWord(sql) \in WordList(NlValidKeywords)

NlEmptyRequestMsg == <<"Please type a question or command.">>

NlInvalidMsg(sql) ==
    <<"Model did not return a valid SQL statement. It returned:\n">> \o sql

NlLlmErrorMsg(e) == <<"Error from LLM: ">> \o e

\* ollama.chat was not called
NoReply == [raises |-> FALSE, text |-> <<>>]

\* str(e) of the exception the completion service raised, if it raised
Thrown(reply) == IF reply.raises THEN Some(reply.text) ELSE None

\* a returned pair (sql, err); raised: an exception left the function instead;
\* thrown: the exception of the completion service the call met
Returned(sql, err, reply) ==
    [sql |-> sql, err |-> err, raised |-> FALSE, thrown |-> Thrown(reply)]

\* faulty variant: the exception is not caught
NlLlmFailurePropagates(e, reply) ==
    [sql |-> None, err |-> None, raised |-> TRUE, thrown |-> Thrown(reply)]

\* the except clause, app.py 169-170
NlLlmFailure(e, reply) == Returned(None, Some(NlLlmErrorMsg(e)), reply)

\* nl_to_sql(text) when ollama.chat answers `reply`: (sql_query, error_message)
NlToSql(text, reply) ==
    IF text = <<>> \/ Strip(text) = <<>>
    THEN Returned(None, Some(NlEmptyRequestMsg), NoReply)
    ELSE IF reply.raises
    THEN NlLlmFailure(reply.text, reply)
    ELSE LET sql == NlClean(reply.text) IN
         IF NlIndexError(sql)
         THEN NlLlmFailure(<<"list index out of range">>, reply)
         ELSE IF ~NlValid(sql)
         THEN Returned(None, Some(NlInvalidMsg(sql)), reply)
         ELSE Returned(Some(sql), None, reply)

\* --------------------------------------------------- fix_sql (app.py 174-245)
\* the keywords of the fence filter, app.py 224-230
FixFenceKeywords == {"select", "insert", "update", "delete", "create", "alter", "drop"}

\* faulty variant: the repairer's list lacks pragma
FixValidKeywordsNoPragma ==
    {"select", "insert", "update", "delete", "create", "alter", "drop"}

\* the keywords of the sanity check, app.py 239
FixValidKeywords ==
    {"select", "insert", "update", "delete", "create", "alter", "drop", "pragma"}

FixLooksLikeSql(p) == \E kw \in FixFenceKeywords : ContainsWord(p, kw)

FixCandidates(parts) ==
    LET kept == SelectSeq(parts, FixLooksLikeSql)
    IN  [i \in DOMAIN kept |-> Strip(kept[i])]

\* the fence cleaning, app.py 222-232
FixUnfence(r) ==
    IF HasFence(r)
    THEN LET candidates == FixCandidates(SplitFence(r))
         IN  IF candidates # <<>> THEN candidates[1] ELSE r
    ELSE r

\* removal of one trailing semicolon, app.py 234-236
FixDropSemi(r) ==
    LET sql == Strip(r) IN IF EndsWithSemi(sql) THEN DropLast(sql) ELSE sql

\* the cleaned text `sql` of app.py 220-236
FixClean(content) == FixDropSemi(FixUnfence(Strip(content)))

FixIndexError(sql) == sql # <<>> /\ SplitWords(sql) = <<>>

\* first_word, app.py 238
FixFirstWord(sql) == IF sql # <<>> THEN LowerText(SplitWords(sql)[1]) ELSE <<>>

\* faulty variant: the repaired text is not checked
FixValidUnchecked(sql) == TRUE

\* the sanity check passes, app.py 239
FixValid(sql) == FixFirstWord(sql) \in WordList(FixValidKeywords)

FixInvalidMsg(sql) == <<"Fixed SQL is not a valid statement. It returned:\n">> \o sql

FixLlmErrorMsg(e) == <<"Error from LLM during fix: ">> \o e

\* the except clause, app.py 244-245
FixLlmFailure(e, reply) == Returned(None, Some(FixLlmErrorMsg(e)), reply)

\* fix_sql(original_sql, db_error, user_request) when ollama.chat answers
\* `reply`: the three arguments only enter the prompt
FixSql(original_sql, db_error, user_request, reply) ==
    IF reply.raises
    THEN FixLlmFailure(reply.text, reply)
    ELSE LET sql == FixClean(reply.text) IN
         IF FixIndexError(sql)
         THEN FixLlmFailure(<<"list index out of range">>, reply)
         ELSE IF ~FixValid(sql)
         THEN Returned(None, Some(FixInvalidMsg(sql)), reply)
         ELSE Returned(Some(sql), None, reply)

\* --------------------------------------------------- run_sql (app.py 71-103)
\* str(e) of the exceptions sqlite3 and pandas raise; str(e) may be empty
Diag == {<<>>, <<"no such column: age">>}

\* What the store does with one statement.  at: where the call sequence of
\* app.py 83-100 stops ("connect", "execute", "fetch" raise with str(e) = diag;
\* "rows": cur.description is not None; "effect": it is None).  rows: the rows
\* fetched.  writes: the statement changed data inside the connection's open
\* transaction.  reclaimed: the runtime finalised a connection that run_sql
\* left unclosed before control is back in the caller (reference counting
\* does, a tracing collector need not).
Engine ==
    [at : {"connect"}, diag : Diag, rows : {0}, writes : {FALSE}, reclaimed : {FALSE}]
    \cup [at : {"execute"}, diag : Diag, rows : {0}, writes : {FALSE}, reclaimed : BOOLEAN]
    \cup [at : {"fetch"}, diag : Diag, rows : {0}, writes : BOOLEAN, reclaimed : BOOLEAN]
    \cup [at : {"rows"}, diag : {<<>>}, rows : 0..MaxRows, writes : BOOLEAN, reclaimed : {FALSE}]
    \cup [at : {"effect"}, diag : {<<>>}, rows : 0..MaxRows, writes : BOOLEAN, reclaimed : {FALSE}]

NoneStripMsg == <<"'NoneType' object has no attribute 'strip'">>

\* faulty variant: one trailing semicolon is removed, as nl_to_sql does
RunSqlTextOneSemi(query) ==
    LET t == Strip(query) IN IF EndsWithSemi(t) THEN DropLast(t) ELSE t

\* sql = query.strip().rstrip(";"), app.py 86
RunSqlText(query) == RStripSemi(Strip(query))

\* faulty variant: the diagnostic is reworded on the way out
RunSqlFailureReworded(eng, e, executed, opened) ==
    [df |-> None, err |-> Some(<<"Database error: ">> \o e), kind |-> None,
     executed |-> executed, opened |-> opened, closed |-> FALSE, committed |-> FALSE,
     raised |-> FALSE, store |-> eng]

\* the except clause, app.py 102-103: return None, str(e), None
RunSqlFailure(eng, e, executed, opened) ==
    [df |-> None, err |-> Some(e), kind |-> None, executed |-> executed,
     opened |-> opened, closed |-> FALSE, committed |-> FALSE, raised |-> FALSE,
     store |-> eng]

\* faulty variant: a result without rows is returned as an error
RunSqlSuccessEmptyFails(eng, sql) ==
    IF eng.rows = 0
    THEN RunSqlFailure(eng, <<"no rows">>, Some(sql), TRUE)
    ELSE IF eng.at = "rows"
    THEN [df |-> Some(eng.rows), err |-> None, kind |-> Some("select"),
          executed |-> Some(sql), opened |-> TRUE, closed |-> TRUE,
          committed |-> FALSE, raised |-> FALSE, store |-> eng]
    ELSE [df |-> None, err |-> None, kind |-> Some("other"),
          executed |-> Some(sql), opened |-> TRUE, closed |-> TRUE,
          committed |-> TRUE, raised |-> FALSE, store |-> eng]

\* the statement executed, app.py 89-100: fetch and close, or commit and close
RunSqlSuccess(eng, sql) ==
    IF eng.at = "rows"
    THEN [df |-> Some(eng.rows), err |-> None, kind |-> Some("select"),
          executed |-> Some(sql), opened |-> TRUE, closed |-> TRUE,
          committed |-> FALSE, raised |-> FALSE, store |-> eng]
    ELSE [df |-> None, err |-> None, kind |-> Some("other"),
          executed |-> Some(sql), opened |-> TRUE, closed |-> TRUE,
          committed |-> TRUE, raised |-> FALSE, store |-> eng]

\* run_sql(query) against a store behaving as eng.  df, err, kind are the
\* returned triple (df as its row count); executed is the text handed to
\* cur.execute; opened/closed/committed record the calls made on the
\* connection; raised: an exception left run_sql; store: what the store did.
RunSql(query, eng) ==
    IF eng.at = "connect"
    THEN RunSqlFailure(eng, eng.diag, None, FALSE)
    ELSE IF query = None
    THEN RunSqlFailure(eng, NoneStripMsg, None, TRUE)
    ELSE LET sql == RunSqlText(query[1]) IN
         IF eng.at = "execute"
         THEN RunSqlFailure(eng, eng.diag, Some(sql), TRUE)
         ELSE IF eng.at = "fetch"
         THEN RunSqlFailure(eng, eng.diag, Some(sql), TRUE)
         ELSE RunSqlSuccess(eng, sql)

\* connections run_sql leaves open when it returns
Leaked(r) == IF r.opened /\ ~r.closed /\ ~r.store.reclaimed THEN 1 ELSE 0

\* ------------------------------------------------------ main (app.py 249-383)
\* what the user types into st.chat_input: non-empty, possibly blank
Inputs == {<<"show", " ", "students">>, <<" ">>}

\* completions of the model: a bare statement, one to be cleaned, a pragma,
\* prose, nothing, a lone terminator, a fenced statement, a fenced statement
\* with a language tag
Completions ==
    { <<"select">>,
      <<" ", "SELECT", " ", "sql", ";">>,
      <<"pragma">>,
      <<"sql">>,
      <<>>,
      <<";">>,
      <<"FENCE", "select", "FENCE">>,
      <<"FENCE", "sql", " ", "select", "FENCE">> }

\* what the completion service does, app.py 126-140: it returns a completion,
\* or raises is TRUE and an exception with str(e) = text is raised by
\* ollama.chat or by response["message"]["content"] on a malformed response
\* (KeyError('message'))
Replies ==
    [raises : {FALSE}, text : Completions]
    \cup [raises : {TRUE}, text : {<<>>, <<"'message'">>}]

NoResult == Returned(None, None, NoReply)

\* no statement has been handed to the store
NoEngine == [at |-> "none", diag |-> <<>>, rows |-> 0, writes |-> FALSE, reclaimed |-> FALSE]

NoRun ==
    [df |-> None, err |-> None, kind |-> None, executed |-> None, opened |-> FALSE,
     closed |-> FALSE, committed |-> FALSE, raised |-> FALSE, store |-> NoEngine]

NoCalls == [nl_to_sql |-> 0, run_sql |-> 0, fix_sql |-> 0]

Widget(w, v) == [w |-> w, v |-> v]

\* faulty variant: every entry is stored under the role of the user
MsgAsUser(role, content) == [role |-> "user", content |-> content]

\* an entry of st.session_state.messages, app.py 300, 310, 329, 341, 362, 383
Msg(role, content) == [role |-> role, content |-> content]

\* st.markdown and st.code of the generated statement, app.py 313-314
ShowGeneratedSql(sql) ==
    <<Widget("markdown", <<"**Generated SQL:**">>), Widget("code", sql)>>

\* faulty variant: the repaired statement is announced but not displayed
ShowFixedSqlHeadingOnly(sql) == <<Widget("markdown", <<"**Fixed SQL:**">>)>>

\* st.markdown and st.code of the repaired statement, app.py 333-334
ShowFixedSql(sql) ==
    <<Widget("markdown", <<"**Fixed SQL:**">>), Widget("code", sql)>>

\* the history entry of app.py 310
GenFailedContent(err) == <<"[x] ">> \o err

\* faulty variant: the original failure is dropped from the report
FixFailedContentOnlyFix(db_err, fix_err) == <<"[x] Fix failed: ">> \o fix_err

\* the history entry of app.py 329
FixFailedContent(db_err, fix_err) ==
    <<"[x] DB error: ">> \o db_err \o <<"\n\nAnd fix also failed: ">> \o fix_err

\* the history entry of app.py 340
StillFailedContent(db_err2) == <<"[x] DB error after fix: ">> \o db_err2

\* the report of a run without error, app.py 365-383
SuccessWidget(r) ==
    IF r.kind = Some("select")
    THEN IF r.df = None \/ r.df = Some(0)
         THEN Widget("info", <<"No rows found for this query.">>)
         ELSE Widget("dataframe", <<>>)
    ELSE Widget("success", <<"[ok] Command executed successfully.">>)

SuccessContent(r) ==
    IF r.kind = Some("select")
    THEN IF r.df = None \/ r.df = Some(0)
         THEN <<"[ok] Query ran successfully, but no rows matched.">>
         ELSE <<"[ok] Query ran successfully and returned rows.">>
    ELSE <<"[ok] Command executed successfully on the database.">>

\* the report of a repaired run without error, app.py 344-362
FixedSuccessWidget(r) ==
    IF r.kind = Some("select")
    THEN IF r.df = None \/ r.df = Some(0)
         THEN Widget("info", <<"No rows found for this query (after fix).">>)
         ELSE Widget("dataframe", <<>>)
    ELSE Widget("success", <<"[ok] Command executed successfully (after fix).">>)

FixedSuccessContent(r) ==
    IF r.kind = Some("select")
    THEN IF r.df = None \/ r.df = Some(0)
         THEN <<"[ok] Query ran (after fix), but no rows matched.">>
         ELSE <<"[ok] Query ran successfully (after fix) and returned rows.">>
    ELSE <<"[ok] Command executed successfully on the database (after fix).">>

\* faulty variant: the generator's error is not checked
GenFailedNever(r) == FALSE

\* `if err:` app.py 308
GenFailed(r) == Truthy(r.err)

\* `if db_err:` app.py 320
DbFailed(r) == Truthy(r.err)

\* `if fix_err:` app.py 325
FixFailed(r) == Truthy(r.err)

\* `if db_err2:` app.py 337
DbFailedAgain(r) == Truthy(r.err)

\* the outcome of run_sql is Failure: kind is None (docstring, app.py 80)
IsFailure(r) == r.kind = None

Terminal == {"Done", "Failed"}

Init ==
    /\ pc = "Idle"
    /\ user_input = <<>>
    /\ messages = <<>>
    /\ shown = <<>>
    /\ gen = NoResult
    /\ run1 = NoRun
    /\ fix = NoResult
    /\ run2 = NoRun
    /\ calls = NoCalls
    /\ conns = 0
    /\ raw = <<>>
    /\ genOut = NoResult
    /\ fixOut = NoResult
    /\ runOut = NoRun

CleanVars == <<raw, genOut, fixOut, runOut>>

\* app.py 296-302: a request arrives; the script runs again from the top
Submit ==
    /\ pc \in {"Idle"} \cup Terminal
    /\ Len(messages) < 2 * MaxRequests
    /\ \E u \in Inputs :
         /\ user_input' = u
         /\ messages' = Append(messages, Msg("user", u))
    /\ shown' = <<>>
    /\ gen' = NoResult
    /\ run1' = NoRun
    /\ fix' = NoResult
    /\ run2' = NoRun
    /\ calls' = NoCalls
    /\ pc' = "Generating"
    /\ UNCHANGED <<conns, CleanVars>>

\* app.py 306-314: Step 1, NL -> SQL
Generate ==
    /\ pc = "Generating"
    /\ \E reply \in Replies :
         LET r == NlToSql(user_input, reply) IN
         /\ gen' = r
         /\ calls' = [calls EXCEPT !.nl_to_sql = @ + 1]
         /\ IF GenFailed(r)
            THEN /\ shown' = Append(shown, Widget("error", r.err[1]))
                 /\ messages' = Append(messages, Msg("assistant", GenFailedContent(r.err[1])))
                 /\ pc' = "Failed"
            ELSE /\ shown' = shown \o ShowGeneratedSql(r.sql)
                 /\ messages' = messages
                 /\ pc' = "Executing"
    /\ UNCHANGED <<user_input, run1, fix, run2, conns, CleanVars>>

\* app.py 316-322 and 363-383: Step 2, execute; report unless db_err
Execute ==
    /\ pc = "Executing"
    /\ \E eng \in Engine :
         LET r == RunSql(gen.sql, eng) IN
         /\ run1' = r
         /\ calls' = [calls EXCEPT !.run_sql = @ + 1]
         /\ conns' = conns + Leaked(r)
         /\ IF DbFailed(r)
            THEN /\ shown' = shown \o
                        <<Widget("warning", <<"Database error: ">> \o r.err[1]),
                          Widget("markdown", <<"Trying to fix the SQL using the model...">>)>>
                 /\ messages' = messages
                 /\ pc' = "Repairing"
            ELSE /\ shown' = Append(shown, SuccessWidget(r))
                 /\ messages' = Append(messages, Msg("assistant", SuccessContent(r)))
                 /\ pc' = "Done"
    /\ UNCHANGED <<user_input, gen, fix, run2, CleanVars>>

\* app.py 324-334: Step 3, ask the model to fix the statement
Repair ==
    /\ pc = "Repairing"
    /\ \E reply \in Replies :
         LET r == FixSql(gen.sql, run1.err[1], user_input, reply) IN
         /\ fix' = r
         /\ calls' = [calls EXCEPT !.fix_sql = @ + 1]
         /\ IF FixFailed(r)
            THEN /\ shown' = Append(shown, Widget("error", r.err[1]))
                 /\ messages' = Append(messages,
                        Msg("assistant", FixFailedContent(run1.err[1], r.err[1])))
                 /\ pc' = "Failed"
            ELSE /\ shown' = shown \o ShowFixedSql(r.sql)
                 /\ messages' = messages
                 /\ pc' = "ReExecuting"
    /\ UNCHANGED <<user_input, gen, run1, run2, conns, CleanVars>>

\* faulty variant: a second failure is handed back to the repairer
ReExecuteRetrying ==
    /\ pc = "ReExecuting"
    /\ \E eng \in Engine :
         LET r == RunSql(fix.sql, eng) IN
         /\ run2' = r
         /\ calls' = [calls EXCEPT !.run_sql = @ + 1]
         /\ conns' = conns + Leaked(r)
         /\ IF DbFailedAgain(r)
            THEN /\ shown' = Append(shown,
                        Widget("error", <<"Database error even after fix: ">> \o r.err[1]))
                 /\ messages' = messages
                 /\ pc' = "Repairing"
            ELSE /\ shown' = Append(shown, FixedSuccessWidget(r))
                 /\ messages' = Append(messages, Msg("assistant", FixedSuccessContent(r)))
                 /\ pc' = "Done"
    /\ UNCHANGED <<user_input, gen, run1, fix, CleanVars>>

\* app.py 336-362: execute the repaired statement and report; no further repair
ReExecute ==
    /\ pc = "ReExecuting"
    /\ \E eng \in Engine :
         LET r == RunSql(fix.sql, eng) IN
         /\ run2' = r
         /\ calls' = [calls EXCEPT !.run_sql = @ + 1]
         /\ conns' = conns + Leaked(r)
         /\ IF DbFailedAgain(r)
            THEN /\ shown' = Append(shown,
                        Widget("error", <<"Database error even after fix: ">> \o r.err[1]))
                 /\ messages' = Append(messages,
                        Msg("assistant", StillFailedContent(r.err[1])))
            ELSE /\ shown' = Append(shown, FixedSuccessWidget(r))
                 /\ messages' = Append(messages, Msg("assistant", FixedSuccessContent(r)))
         /\ pc' = "Done"
    /\ UNCHANGED <<user_input, gen, run1, fix, CleanVars>>

Next == Submit \/ Generate \/ Execute \/ Repair \/ ReExecute

Spec == Init /\ [][Next]_vars

\* main runs synchronously: once a request is taken, each call is made as soon
\* as the previous one has returned (every call is assumed to return); only
\* the arrival of a request is up to the user
SpecFair ==
    /\ Spec
    /\ WF_vars(Generate)
    /\ WF_vars(Execute)
    /\ WF_vars(Repair)
    /\ WF_vars(ReExecute)

\* ------------------------------------------- the cleaning pipeline on its own
\* every completion text of at most MaxLen pieces, answered to a request
InitClean ==
    /\ pc = "Idle"
    /\ user_input = <<"show", " ", "students">>
    /\ messages = <<>>
    /\ shown = <<>>
    /\ gen = NoResult
    /\ run1 = NoRun
    /\ fix = NoResult
    /\ run2 = NoRun
    /\ calls = NoCalls
    /\ conns = 0
    /\ raw \in Texts(MaxLen)
    /\ genOut = NoResult
    /\ fixOut = NoResult
    /\ runOut = NoRun

OrchVars == <<pc, user_input, messages, shown, gen, run1, fix, run2, calls, conns>>

\* nl_to_sql on the completion raw
ApplyNlToSql ==
    /\ genOut = NoResult
    /\ genOut' = NlToSql(user_input, [raises |-> FALSE, text |-> raw])
    /\ UNCHANGED <<OrchVars, raw, fixOut, runOut>>

\* fix_sql on the completion raw
ApplyFixSql ==
    /\ fixOut = NoResult
    /\ fixOut' = FixSql(Some(<<"select">>), <<"no such column: age">>, user_input,
                        [raises |-> FALSE, text |-> raw])
    /\ UNCHANGED <<OrchVars, raw, genOut, runOut>>

NextClean == ApplyNlToSql \/ ApplyFixSql

SpecClean == InitClean /\ [][NextClean]_vars

\* ---------------------------------------------------------- run_sql on its own
\* every statement text of at most MaxQueryLen pieces, against every store
InitRun ==
    /\ pc = "Idle"
    /\ user_input = <<>>
    /\ messages = <<>>
    /\ shown = <<>>
    /\ gen = NoResult
    /\ run1 = NoRun
    /\ fix = NoResult
    /\ run2 = NoRun
    /\ calls = NoCalls
    /\ conns = 0
    /\ raw \in Texts(MaxQueryLen)
    /\ genOut = NoResult
    /\ fixOut = NoResult
    /\ runOut = NoRun

\* run_sql on the statement raw
ApplyRunSql ==
    /\ runOut = NoRun
    /\ \E eng \in Engine : runOut' = RunSql(Some(raw), eng)
    /\ UNCHANGED <<OrchVars, raw, genOut, fixOut>>

NextRun == ApplyRunSql

SpecRun == InitRun /\ [][NextRun]_vars

\* ===================================================================== claims
Last(seq) == seq[Len(seq)]

\* sub occurs in text as a contiguous run of pieces
Occurs(sub, text) ==
    \E i \in 1..(Len(text) - Len(sub) + 1) : SubSeq(text, i, i + Len(sub) - 1) = sub

\* the first execution has returned
Ran1 == run1 # NoRun

\* the second execution has returned
Ran2 == run2 # NoRun

\* C1: within one request nl_to_sql is invoked at most once, fix_sql at most
\* once and run_sql at most twice; when the execution of the repaired
\* statement fails too, the request is over with a failure report (and any
\* further generation, repair or execution would exceed the call bounds).
C1_CallBounds ==
    /\ calls.nl_to_sql <= 1
    /\ calls.fix_sql <= 1
    /\ calls.run_sql <= 2

C1_ExactlyOneRepair ==
    /\ C1_CallBounds
    /\ (Ran2 /\ IsFailure(run2)) =>
          /\ pc \in Terminal
          /\ Last(messages) = Msg("assistant", StillFailedContent(run2.err[1]))
          /\ Last(shown).w = "error"

\* C2: when nl_to_sql returns an error, run_sql and fix_sql are not invoked for
\* that request, and the request ends Failed with the generator's message
\* shown unchanged and recorded in the history.
C2_GenerationErrorIsTerminal ==
    gen.err # None =>
        /\ gen.sql = None
        /\ calls.run_sql = 0 /\ calls.fix_sql = 0
        /\ ~Ran1 /\ ~Ran2 /\ fix = NoResult
        /\ pc = "Failed"
        /\ shown = <<Widget("error", gen.err[1])>>
        /\ Last(messages).role = "assistant"
        /\ Occurs(gen.err[1], Last(messages).content)

C2_Witness ==
    /\ pc = "Failed"
    /\ gen.err # None
    /\ Occurs(<<"sql">>, gen.err[1])

\* C3: run_sql closes the connection it opened on every exit path, so no
\* connection is open while control is in the orchestrator.
C3_ConnectionReleased ==
    /\ run1.opened => run1.closed
    /\ run2.opened => run2.closed
    /\ conns = 0

\* C4: a first execution whose outcome is Failure, whatever its message, leads
\* to the repairer and is never reported as a success; an outcome of Rows or
\* Effect leads to Done without the repairer.
C4_FailureAlwaysRepaired ==
    Ran1 =>
        IF IsFailure(run1)
        THEN /\ pc = "Repairing" \/ calls.fix_sql = 1
             /\ Last(messages) # Msg("assistant", SuccessContent(run1))
        ELSE pc = "Done" /\ calls.fix_sql = 0

\* C5: run_sql never lets an exception out; an error raised while connecting,
\* executing or fetching comes back as (None, str(e), None) with str(e) the
\* store's diagnostic, unchanged.
C5_Failure(r) ==
    r.store.at \in {"connect", "execute", "fetch"} =>
        /\ r.df = None
        /\ r.kind = None
        /\ r.err = Some(r.store.diag)

C5_ErrorsReturnedVerbatim ==
    /\ ~run1.raised /\ ~run2.raised
    /\ C5_Failure(run1)
    /\ C5_Failure(run2)

C5_Witness ==
    /\ run1.store.at = "execute"
    /\ run1.err = Some(<<"no such column: age">>)
    /\ run2.store.at = "connect"
    /\ run2.err = Some(<<>>)

\* ------------------------------------------------ claims on the cleaning
\* the cleaned completion has been submitted to nl_to_sql
Applied == genOut # NoResult

\* the first whitespace-delimited token of t, lower-cased (<<>> if none)
FirstToken(t) ==
    IF \A i \in DOMAIN t : t[i] = " " THEN <<>>
    ELSE LET a == CHOOSE i \in DOMAIN t : t[i] # " " /\ \A k \in 1..(i - 1) : t[k] = " "
             b == CHOOSE j \in a..Len(t) :
                      /\ \A k \in a..j : t[k] # " "
                      /\ (j = Len(t) \/ t[j + 1] = " ")
         IN  [k \in 1..(b - a + 1) |-> IF t[a + k - 1] = "SELECT" THEN "select"
                                        ELSE t[a + k - 1]]

RecognizedKeywords ==
    {<<"select">>, <<"insert">>, <<"update">>, <<"delete">>, <<"create">>,
     <<"alter">>, <<"drop">>, <<"pragma">>}

\* C6: nl_to_sql returns the cleaned text as SQL exactly when that text is
\* non-empty and its first whitespace-delimited token, lower-cased, is one of
\* select, insert, update, delete, create, alter, drop, pragma; otherwise it
\* returns an error message and no SQL.
C6_AcceptsExactlyKeywordLed ==
    Applied =>
        LET cleaned == NlClean(raw) IN
        IF cleaned # <<>> /\ FirstToken(cleaned) \in RecognizedKeywords
        THEN genOut.sql = Some(cleaned) /\ genOut.err = None
        ELSE genOut.sql = None /\ genOut.err # None /\ genOut.err[1] # <<>>

C6_Witness ==
    /\ Applied
    /\ raw = <<" ", "SELECT", " ", "sql", ";">>
    /\ genOut.sql = Some(<<"SELECT", " ", "sql">>)

\* the fragments of t between fence delimiters, as index pairs <<i, j>>
\* (the fragment is t[i..j], empty when j = i - 1)
Fragments(t) ==
    {<<i, j>> \in (1..(Len(t) + 1)) \X (0..Len(t)) :
        /\ j >= i - 1
        /\ \A k \in i..j : t[k] # Fence
        /\ (i = 1 \/ t[i - 1] = Fence)
        /\ (j = Len(t) \/ t[j + 1] = Fence)}

\* the fragment bears an SQL keyword
BearsKeyword(t, f) ==
    \E k \in f[1]..f[2] :
        (IF t[k] = "SELECT" THEN "select" ELSE t[k])
            \in {"select", "insert", "update", "delete", "create", "alter", "drop"}

\* t[i..j] without the blanks around it and without one trailing terminator
Trimmed(t, f) ==
    LET inner == {k \in f[1]..f[2] : t[k] # " "} IN
    IF inner = {} THEN <<>>
    ELSE LET a == CHOOSE k \in inner : \A m \in inner : k <= m
             z == CHOOSE k \in inner : \A m \in inner : k >= m
             b == IF t[z] = ";" THEN z - 1 ELSE z
         IN  [k \in 1..(b - a + 1) |-> t[a + k - 1]]

\* the completion is wrapped in fences and exactly one fragment bears a keyword
Wrapped(t) ==
    /\ Len(t) >= 2
    /\ t[1] = Fence /\ t[Len(t)] = Fence
    /\ Cardinality({f \in Fragments(t) : BearsKeyword(t, f)}) = 1

\* C7: for a completion wrapped in fences with exactly one keyword-bearing
\* fragment, the cleaned statement of nl_to_sql is that fragment without the
\* fences, the blanks around it and one trailing terminator: it is the SQL
\* returned, or the text quoted in the error when its first word is no keyword.
C7_FenceStripping ==
    (Applied /\ Wrapped(raw)) =>
        LET f == CHOOSE g \in Fragments(raw) : BearsKeyword(raw, g)
            expected == Trimmed(raw, f)
        IN  \/ genOut.sql = Some(expected) /\ genOut.err = None
            \/ genOut.sql = None /\ genOut.err = Some(NlInvalidMsg(expected))

C7_Witness ==
    /\ Applied
    /\ raw = <<Fence, " ", "select", ";", Fence>>
    /\ genOut.sql = Some(<<"select">>)

\* C8: on every completion text fix_sql and nl_to_sql agree: both reject, or
\* both accept and return the same SQL.
C8_RepairerCleansLikeGenerator ==
    (genOut # NoResult /\ fixOut # NoResult) =>
        /\ genOut.sql = fixOut.sql
        /\ (genOut.err = None) <=> (fixOut.err = None)

C8_Witness ==
    /\ raw = <<Fence, "pragma", ";", Fence, "select">>
    /\ genOut.sql = Some(<<"select">>)
    /\ fixOut.sql = Some(<<"select">>)

\* ------------------------------------------- claims on repair and outcomes
\* C9: when fix_sql returns an error, the request ends Failed without a second
\* execution, and the reply recorded for it contains the first execution's
\* error message and the repairer's error message.
C9_RepairFailureReportsBoth ==
    fix.err # None =>
        /\ fix.sql = None
        /\ pc = "Failed"
        /\ ~Ran2 /\ calls.run_sql = 1
        /\ run1.err # None /\ run1.err[1] # <<>> /\ fix.err[1] # <<>>
        /\ Last(messages).role = "assistant"
        /\ Occurs(run1.err[1], Last(messages).content)
        /\ Occurs(fix.err[1], Last(messages).content)
        /\ Last(shown) = Widget("error", fix.err[1])

C9_Witness ==
    /\ pc = "Failed"
    /\ run1.err = Some(<<"no such column: age">>)
    /\ fix.err = Some(<<"Fixed SQL is not a valid statement. It returned:\n", "sql">>)

\* the store executed the statement and it returned or affected no row
ZeroRows(r) == r.store.at \in {"rows", "effect"} /\ r.store.rows = 0

\* C10: a statement that executes and returns zero rows (Rows) or affects zero
\* rows (Effect) is not a Failure: run_sql returns no error message for it, and
\* the request ends Done with a success reply and without (another) repair.
C10_ZeroRowsIsSuccess ==
    /\ ZeroRows(run1) =>
          /\ run1.err = None /\ run1.kind # None
          /\ run1.store.at = "rows" => (run1.kind = Some("select") /\ run1.df = Some(0))
          /\ run1.store.at = "effect" => run1.kind = Some("other")
          /\ pc = "Done" /\ calls.fix_sql = 0 /\ fix = NoResult /\ ~Ran2
          /\ Last(messages) \in
                {Msg("assistant", <<"[ok] Query ran successfully, but no rows matched.">>),
                 Msg("assistant", <<"[ok] Command executed successfully on the database.">>)}
    /\ ZeroRows(run2) =>
          /\ run2.err = None /\ run2.kind # None
          /\ pc = "Done" /\ calls.fix_sql = 1 /\ calls.run_sql = 2
          /\ Last(messages) \in
                {Msg("assistant", <<"[ok] Query ran (after fix), but no rows matched.">>),
                 Msg("assistant",
                     <<"[ok] Command executed successfully on the database (after fix).">>)}

C10_Witness ==
    /\ pc = "Done"
    /\ run1.store.at = "effect" /\ run1.store.rows = 0 /\ run1.store.writes
    /\ calls.run_sql = 1

\* ------------------------------------------------- claims on run_sql's text
\* the number of semicolons t ends in
RECURSIVE TrailingSemis(_)
TrailingSemis(t) ==
    IF t # <<>> /\ t[Len(t)] = ";" THEN 1 + TrailingSemis(SubSeq(t, 1, Len(t) - 1)) ELSE 0

\* t without the blanks around it
Trim(t) ==
    LET inner == {k \in DOMAIN t : t[k] # " "} IN
    IF inner = {} THEN <<>>
    ELSE LET a == CHOOSE k \in inner : \A m \in inner : k <= m
             z == CHOOSE k \in inner : \A m \in inner : k >= m
         IN  [k \in 1..(z - a + 1) |-> t[a + k - 1]]

\* run_sql has handed a text to cur.execute
Executed == runOut # NoRun /\ runOut.executed # None

\* C11 as claimed: the text handed to the engine is the trimmed statement
\* with exactly one semicolon removed when it ends in k >= 1 semicolons (and
\* the trimmed statement itself when it ends in none).
C11_OneTerminatorRemoved ==
    Executed =>
        LET t == Trim(raw) IN
        runOut.executed[1] =
            IF TrailingSemis(t) >= 1 THEN SubSeq(t, 1, Len(t) - 1) ELSE t

\* C11 amended: the text handed to the engine is the trimmed statement with
\* all k of its trailing semicolons removed.
C11_AllTerminatorsRemoved ==
    Executed =>
        LET t == Trim(raw) IN
        runOut.executed[1] = SubSeq(t, 1, Len(t) - TrailingSemis(t))

C11_Witness ==
    /\ Executed
    /\ raw = <<" ", "select", ";", ";">>
    /\ runOut.executed = Some(<<"select">>)

\* ------------------------------------------------ claims on what is displayed
\* the statement sql (an Optional) is displayed by st.code before the last widget
CodeShown(sql) ==
    \E i \in 1..(Len(shown) - 1) : shown[i].w = "code" /\ shown[i].v = sql

\* C12: when a request has reached a terminal state, the generated statement,
\* and the repaired statement if fix_sql produced one, have been displayed,
\* and the display ends with the outcome or the failure message.
C12_SqlShownWithOutcome ==
    pc \in Terminal =>
        /\ gen.sql # None => CodeShown(gen.sql)
        /\ fix.sql # None => CodeShown(fix.sql)
        /\ Last(shown).w \in {"error", "info", "dataframe", "success"}
        /\ Last(shown).w = "error" => Last(shown).v # <<>>

C12_Witness ==
    /\ pc = "Done"
    /\ gen.sql = Some(<<"select">>)
    /\ fix.sql = Some(<<"SELECT", " ", "sql">>)
    /\ run2.err = Some(<<"no such column: age">>)
    /\ Len(shown) = 7

\* ------------------------------------------- claims on the completion service
\* what a call of nl_to_sql or fix_sql gave back is a pair (sql, None) or
\* (None, message), and (None, message) with the exception's text when the
\* completion service raised
GaveBackPair(r) ==
    /\ ~r.raised
    /\ r # NoResult => (r.sql = None) # (r.err = None)
    /\ r.err # None => r.err[1] # <<>>
    /\ r.thrown # None =>
          /\ r.sql = None
          /\ r.err # None
          /\ Occurs(r.thrown[1], r.err[1])

\* C13: nl_to_sql and fix_sql never raise: whatever the completion service
\* does (a completion, an exception, a malformed response), each returns
\* (sql, None) or (None, error message).
C13_GeneratorsNeverRaise ==
    /\ GaveBackPair(gen)
    /\ GaveBackPair(fix)
    /\ calls.nl_to_sql = 1 => gen # NoResult
    /\ calls.fix_sql = 1 => fix # NoResult

C13_Witness ==
    /\ pc = "Failed"
    /\ gen.sql # None
    /\ fix.thrown = Some(<<"'message'">>)
    /\ fix.err = Some(<<"Error from LLM during fix: ", "'message'">>)

\* ------------------------------------------------ claims on the state machine
\* the transitions of one request, and the arrival of the next request
Edges ==
    {<<"Idle", "Generating">>, <<"Done", "Generating">>, <<"Failed", "Generating">>,
     <<"Generating", "Executing">>, <<"Generating", "Failed">>,
     <<"Executing", "Done">>, <<"Executing", "Repairing">>,
     <<"Repairing", "ReExecuting">>, <<"Repairing", "Failed">>,
     <<"ReExecuting", "Done">>}

\* a step moves along an edge; the only step into Generating is the arrival of
\* a request, which starts the calls of that request afresh
ForwardStep ==
    /\ <<pc, pc'>> \in Edges
    /\ pc' = "Generating" <=> calls' = NoCalls
    /\ pc' # "Generating" =>
          calls'.nl_to_sql + calls'.run_sql + calls'.fix_sql
              = calls.nl_to_sql + calls.run_sql + calls.fix_sql + 1

\* C14: every request goes Idle, Generating, Executing, optionally Repairing
\* and ReExecuting, and ends Done or Failed: each step of a request moves
\* forward along these states, so none is entered twice in one request, and a
\* request that was taken always reaches a terminal state.
C14_RunsToCompletion ==
    /\ [][ForwardStep]_vars
    /\ (pc = "Generating") ~> (pc \in Terminal)
    /\ [](pc \in {"Idle", "Generating", "Executing", "Repairing", "ReExecuting",
                  "Done", "Failed"})

C14_Witness ==
    /\ pc = "Done"
    /\ calls = [nl_to_sql |-> 1, run_sql |-> 2, fix_sql |-> 1]
    /\ Len(messages) = 4

\* a generator result that carries a statement of the required shape
Validated(r) ==
    /\ r.sql # None /\ r.err = None
    /\ FirstToken(r.sql[1]) \in RecognizedKeywords

\* the statement run_sql put to the engine is the one it was given, trimmed
Ran(r, given) ==
    r.executed # None => r.executed[1] = RunSqlText(given.sql[1])

\* C15: every statement main passes to run_sql, the generated one and the
\* repaired one alike, has passed the shape check: its first
\* whitespace-delimited token, lower-cased, is one of the eight keywords.
C15_OnlyValidatedStatementsRun ==
    /\ pc = "Executing" \/ Ran1 => Validated(gen)
    /\ pc = "ReExecuting" \/ Ran2 => Validated(fix)
    /\ Ran1 => Ran(run1, gen)
    /\ Ran2 => Ran(run2, fix)
    /\ Ran2 => Ran1

C15_Witness ==
    /\ Ran1 /\ Ran2
    /\ gen.sql = Some(<<"pragma">>)
    /\ fix.sql = Some(<<"SELECT", " ", "sql">>)
    /\ run2.executed = fix.sql

\* the statements the generator returns unchanged when the completion is
\* exactly the statement
AcceptedBare ==
    {s \in Texts(MaxLen - 4) :
        /\ \A i \in DOMAIN s : s[i] # Fence
        /\ NlToSql(user_input, [raises |-> FALSE, text |-> s]).sql = Some(s)}

\* s between fence markers, without and with a language tag on the opening one
Fenced(s) == <<Fence>> \o s \o <<Fence>>
FencedTagged(s) == <<Fence, "sql", " ">> \o s \o <<Fence>>

\* C16: a statement that nl_to_sql accepts when the completion is exactly the
\* statement is accepted and returned too when the completion is the statement
\* between fence markers, with or without a language tag, whatever its keyword.
C16_FencedAcceptedLikeBare ==
    Applied =>
        \A s \in AcceptedBare :
            raw \in {Fenced(s), FencedTagged(s)} =>
                genOut.sql = Some(s) /\ genOut.err = None

\* run_sql reported success (Rows or Effect) for a statement that wrote
SucceededWriting(r) ==
    /\ r # NoRun /\ ~r.raised
    /\ r.err = None /\ r.kind \in {Some("select"), Some("other")}
    /\ r.store.writes

\* C17: when run_sql reports success for a statement that modifies the
\* database, the modification was committed before the connection was closed,
\* whether the statement has a result set (Rows) or not (Effect).
C17_SuccessfulWritesCommitted ==
    SucceededWriting(runOut) => runOut.committed /\ runOut.closed

\* --------------------------------------------------- claims on the history
\* entries alternate, the user's first
Alternating ==
    \A i \in DOMAIN messages :
        messages[i].role = (IF i % 2 = 1 THEN "user" ELSE "assistant")

\* a request that was handled left two entries; one in hand has left the
\* user's entry only
TwoPerRequest ==
    /\ pc \in {"Idle"} \cup Terminal => Len(messages) % 2 = 0
    /\ pc \notin {"Idle"} \cup Terminal => Len(messages) % 2 = 1
    /\ pc = "Idle" <=> messages = <<>>

\* the history grew by exactly one entry of the role, the old entries untouched
Appended(role) ==
    /\ Len(messages') = Len(messages) + 1
    /\ SubSeq(messages', 1, Len(messages)) = messages
    /\ messages'[Len(messages')].role = role

\* taking a request appends the user's entry, ending one appends the
\* assistant's entry, the steps between append nothing
HistoryStep ==
    /\ pc' = "Generating" =>
          Appended("user") /\ messages'[Len(messages')].content = user_input'
    /\ pc' \in Terminal => Appended("assistant")
    /\ pc' \notin Terminal \cup {"Generating"} => messages' = messages

\* C18: the history is append-only; every handled request appends exactly one
\* user message and then exactly one assistant message, whichever way it ends,
\* so the history of n handled requests holds 2n messages alternating user and
\* assistant.
C18_HistoryAppendOnly ==
    /\ [](Alternating /\ TwoPerRequest)
    /\ [][HistoryStep]_vars

C18_Witness ==
    /\ pc = "Done" /\ Ran2
    /\ Len(messages) = 4
    /\ messages[2].content = GenFailedContent(NlEmptyRequestMsg)
    /\ messages[4].content = StillFailedContent(run2.err[1])

====
